---- MODULE Spec2Model ----
(***************************************************************************)
(* Model of the admin dashboard's asynchronous full-sync protocol          *)
(* (startFullSyncAsync / getFullSyncStatus / runFullSync and the           *)
(* ClientButtons polling loop) and of the multi-candidate resolver routes  *)
(* (shipping params, shipping sync, mapping store), of the partial-sync     *)
(* proxy, of the two ClientButtons buttons across mounts and of the        *)
(* DashboardPage handlers (health gate, automatic preview, full sync).     *)
(*                                                                         *)
(* Strings are sequences of one-character strings, so that split,          *)
(* toLowerCase and the job-id regular expression are computed on the       *)
(* characters.  NULL stands for JavaScript's null / undefined.             *)
(***************************************************************************)
EXTENDS Integers, Sequences, FiniteSets, TLC

VARIABLES
    res,          \* pure-function specifications: the Response under examination
    ret,          \* pure-function specifications: what the function returned / threw
    caller,       \* polling: "runFullSync", "ClientButtons" or "fullSyncProxy"
    pc,           \* polling: position of the async handler
    invocation,   \* polling: number of full-sync invocations started so far
    startReqs,    \* polling: start requests sent by the current invocation
    start,        \* polling: value startFullSyncAsync returned ([kind, job_id])
    delay,        \* polling: the loop's local `delay`
    waits,        \* polling: the delays handed to setTimeout, in order
    statusLog,    \* polling: job ids of the status requests sent, in order
    lastCheck,    \* polling: outcome of the last completed status check
    mounted,      \* ClientButtons: component still mounted
    abortRef,     \* ClientButtons: abortRef.current
    timerRef,     \* ClientButtons: timerRef.current
    fullLoading,  \* ClientButtons state
    phase,        \* ClientButtons state
    jobId,        \* ClientButtons state
    jobStatus,    \* ClientButtons state
    outcome,      \* polling: how the invocation ended
    inflight,     \* polling: status requests sent and not yet settled
    lastJob,      \* polling: the SyncJob the last successful status check returned
    reported,     \* polling: text thrown / alerted for a job in status error
    proxied,      \* full-sync proxy route: the NextResponse it returned
    route,        \* resolver: which route handler runs
    rpc,          \* resolver: position of the handler
    requested,    \* resolver: candidate indexes requested, in order
    responses,    \* resolver: what each requested candidate answered, in order
    tried,        \* resolver: the handler's `tried` list
    answer,       \* resolver: the NextResponse the handler returned
    previewLoading,  \* ClientButtons state
    handlers,     \* ClientButtons: the click handlers started, with their positions
    instance,     \* ClientButtons: which mount of the component is on screen
    page,         \* dashboard: which DashboardPage source runs
    gate,         \* dashboard state
    data,         \* dashboard state: the preview shown
    loading,      \* dashboard state
    autopreviewDone, \* dashboard: sessionStorage holds tl_autopreview_done
    cache,        \* dashboard: the cached preview (saveCachedPreview)
    backendEpoch, \* dashboard: number of full syncs the backend has completed
    tasks,        \* dashboard: the async functions in flight
    autoPreviews, \* dashboard: preview requests issued by the gate effect
    effectRuns,   \* dashboard: times the gate effect has run
    clicks,       \* dashboard: button clicks and re-mounts so far
    lastDone      \* dashboard: the handler that finished last, and how

pureVars == <<res, ret>>
pollVars == <<caller, pc, invocation, startReqs, start, delay, waits, statusLog,
              lastCheck, mounted, abortRef, timerRef, fullLoading, phase, jobId,
              jobStatus, outcome, inflight, lastJob, reported, proxied>>
resolveVars == <<route, rpc, requested, responses, tried, answer>>
buttonVars == <<previewLoading, handlers, instance>>
dashVars == <<page, gate, data, loading, autopreviewDone, cache, backendEpoch, tasks,
              autoPreviews, effectRuns, clicks, lastDone>>
pageVars == <<buttonVars, dashVars>>
vars == <<pureVars, pollVars, resolveVars, pageVars>>

(***************************************************************************)
(* Strings                                                                 *)
(***************************************************************************)
NULL == <<"<null>">>

\* JavaScript truthiness of a string-or-null value.
Truthy(s) == s # NULL /\ s # <<>>

\* JavaScript a || b on string-or-null values.
Or(a, b) == IF Truthy(a) THEN a ELSE b

Min(a, b) == IF a <= b THEN a ELSE b

SetMin(S) == CHOOSE x \in S : \A y \in S : x <= y

\* The characters matched by the class [A-Za-z0-9_-].
WordChars ==
    {"a","b","c","d","e","f","g","h","i","j","k","l","m","n","o","p","q","r","s","t",
     "u","v","w","x","y","z",
     "A","B","C","D","E","F","G","H","I","J","K","L","M","N","O","P","Q","R","S","T",
     "U","V","W","X","Y","Z",
     "0","1","2","3","4","5","6","7","8","9","_","-"}

\* loc.split('/') : the pieces between the slashes (always at least one piece).
RECURSIVE SplitSlash(_)
SplitSlash(s) ==
    LET slashes == {i \in 1..Len(s) : s[i] = "/"}
    IN  IF slashes = {} THEN <<s>>
        ELSE LET i == SetMin(slashes)
             IN  <<SubSeq(s, 1, i - 1)>> \o SplitSlash(SubSeq(s, i + 1, Len(s)))

\* Minimum length of the token matched by /[A-Za-z0-9_-]{10,}/.
TokenMinLen == 10

\* Length of the run of word characters of t that starts at position i.
RECURSIVE RunLen(_, _)
RunLen(t, i) ==
    IF i > Len(t) \/ t[i] \notin WordChars THEN 0 ELSE 1 + RunLen(t, i + 1)

\* text.match(/[A-Za-z0-9_-]{10,}/) : the leftmost, greedy match, or NULL.
MatchToken(t) ==
    LET starts == {i \in 1..Len(t) : RunLen(t, i) >= TokenMinLen}
    IN  IF starts = {} THEN NULL
        ELSE LET i == SetMin(starts) IN SubSeq(t, i, i + RunLen(t, i) - 1)

(***************************************************************************)
(* Job-id extraction (extractJobIdFromResponse, and the proxy's            *)
(* extractJobId, which is the same code)                                   *)
(***************************************************************************)
\* Result of JSON.parse on a body: an object with optional job_id / id fields,
\* another JSON value (null, number, string: no fields), or a SyntaxError.
JsonObject(job_id, id) == [kind |-> "object", job_id |-> job_id, id |-> id]
JsonOther == [kind |-> "other", job_id |-> NULL, id |-> NULL]
JsonInvalid == [kind |-> "invalid", job_id |-> NULL, id |-> NULL]

\* Response bodies of a 202 answer: the raw text with what JSON.parse makes of it.
StartBodies ==
    { [text |-> NULL, json |-> JsonInvalid],
      [text |-> <<>>, json |-> JsonInvalid],
      \* {"job_id":"XYZ","id":"IDV"}
      [text |-> <<"{","\"","j","o","b","_","i","d","\"",":","\"","X","Y","Z","\"",",",
                  "\"","i","d","\"",":","\"","I","D","V","\"","}">>,
       json |-> JsonObject(<<"X","Y","Z">>, <<"I","D","V">>)],
      \* {"id":"IDV"}
      [text |-> <<"{","\"","i","d","\"",":","\"","I","D","V","\"","}">>,
       json |-> JsonObject(NULL, <<"I","D","V">>)],
      \* {"job_id":"","id":"IDV"}
      [text |-> <<"{","\"","j","o","b","_","i","d","\"",":","\"","\"",",",
                  "\"","i","d","\"",":","\"","I","D","V","\"","}">>,
       json |-> JsonObject(<<>>, <<"I","D","V">>)],
      \* {"ok":true}
      [text |-> <<"{","\"","o","k","\"",":","t","r","u","e","}">>,
       json |-> JsonObject(NULL, NULL)],
      \* {"job":"abcdefghijkl"}
      [text |-> <<"{","\"","j","o","b","\"",":","\"","a","b","c","d","e","f","g","h",
                  "i","j","k","l","\"","}">>,
       json |-> JsonObject(NULL, NULL)],
      \* null
      [text |-> <<"n","u","l","l">>, json |-> JsonOther],
      \* 12
      [text |-> <<"1","2">>, json |-> JsonOther],
      \* accepted job-0123456789 now
      [text |-> <<"a","c","c","e","p","t","e","d"," ","j","o","b","-","0","1","2","3",
                  "4","5","6","7","8","9"," ","n","o","w">>,
       json |-> JsonInvalid],
      \* queued
      [text |-> <<"q","u","e","u","e","d">>, json |-> JsonInvalid] }

\* Header values as res.headers.get returns them.
XJobIdValues == {NULL, <<>>, <<"A","1">>}
XJobidValues == {NULL, <<>>, <<"A","2">>}
JobIdHeaderValues == {NULL, <<"A","3">>}
LocationValues ==
    {NULL, <<>>, <<"Q","R","S">>,
     <<"/","j","o","b","s","/","Q","R","S">>,
     <<"/","j","o","b","s","/">>}

\* The 202 responses handed to the extraction.
AcceptedResponses ==
    [xJobId : XJobIdValues, xJobid : XJobidValues, jobIdHeader : JobIdHeaderValues,
     location : LocationValues, body : StartBodies]

\* First step: x-job-id || x-jobid || job-id || null.
HeaderJobId(r) == Or(r.xJobId, Or(r.xJobid, Or(r.jobIdHeader, NULL)))

\* Second step: parts[parts.length - 1] || null of the Location header.
LocationJobId(r) ==
    LET loc == Or(r.location, <<>>)
    IN  IF Truthy(loc)
        THEN LET parts == SplitSlash(loc) IN Or(parts[Len(parts)], NULL)
        ELSE NULL

\* Faulty variant: the token match is also tried on a body that parses as JSON
\* and has no job_id / id.
BodyJobIdTokenAlways(r) ==
    IF r.body.json.kind = "invalid"
    THEN MatchToken(r.body.text)
    ELSE Or(r.body.json.job_id, Or(r.body.json.id, MatchToken(r.body.text)))

\* Third step: j?.job_id || j?.id || null, or the token match when parsing throws.
BodyJobId(r) ==
    IF r.body.json.kind = "invalid"
    THEN MatchToken(r.body.text)
    ELSE Or(r.body.json.job_id, Or(r.body.json.id, NULL))

extractJobIdFromResponse(r) ==
    LET h == HeaderJobId(r)
        l == IF ~Truthy(h) THEN LocationJobId(r) ELSE h
        b == IF ~Truthy(l) /\ Truthy(r.body.text) THEN BodyJobId(r) ELSE l
    IN  b

\* Faulty variant: the body is consulted before the Location header.
extractJobIdBodyFirst(r) ==
    LET h == HeaderJobId(r)
        b == IF ~Truthy(h) /\ Truthy(r.body.text) THEN BodyJobId(r) ELSE h
        l == IF ~Truthy(b) THEN LocationJobId(r) ELSE b
    IN  l

extractJobId(r) ==
    LET h == HeaderJobId(r)
        l == IF ~Truthy(h) THEN LocationJobId(r) ELSE h
        b == IF ~Truthy(l) /\ Truthy(r.body.text) THEN BodyJobId(r) ELSE l
    IN  b

(***************************************************************************)
(* getFullSyncStatus                                                       *)
(***************************************************************************)
UpperChars == <<"A","B","C","D","E","F","G","H","I","J","K","L","M","N","O","P","Q","R",
                "S","T","U","V","W","X","Y","Z">>
LowerChars == <<"a","b","c","d","e","f","g","h","i","j","k","l","m","n","o","p","q","r",
                "s","t","u","v","w","x","y","z">>

\* String.prototype.toLowerCase on the characters of the model's alphabet.
toLowerCase(s) ==
    [i \in 1..Len(s) |->
        IF \E k \in 1..Len(UpperChars) : UpperChars[k] = s[i]
        THEN LowerChars[CHOOSE k \in 1..Len(UpperChars) : UpperChars[k] = s[i]]
        ELSE s[i]]

\* A JSON field value: t is its JavaScript type, v its characters (NULL when it
\* has none).
Str(s) == [t |-> "string", v |-> s]
Undefined == [t |-> "undefined", v |-> NULL]
JsNull == [t |-> "null", v |-> NULL]
Num(digits) == [t |-> "number", v |-> digits]
JsTrue == [t |-> "boolean", v |-> <<"t","r","u","e">>]
\* An object value; v is what JSON.stringify makes of it.
Obj(json) == [t |-> "object", v |-> json]

\* JavaScript truthiness of a field value.
TruthyValue(x) ==
    CASE x.t = "string" -> x.v # <<>>
      [] x.t = "number" -> x.v # <<"0">>
      [] x.t = "boolean" -> x.v = <<"t","r","u","e">>
      [] x.t = "object" -> TRUE
      [] OTHER -> FALSE

\* x || y on field values.
OrValue(x, y) == IF TruthyValue(x) THEN x ELSE y

\* The four job statuses, ['queued', 'running', 'done', 'error'].
Queued == <<"q","u","e","u","e","d">>
Running == <<"r","u","n","n","i","n","g">>
Done == <<"d","o","n","e">>
Error == <<"e","r","r","o","r">>
JobStatuses == {Queued, Running, Done, Error}

\* The status strings a backend may send.
StatusStrings ==
    {<<"q","u","e","u","e","d">>,
     <<"r","u","n","n","i","n","g">>,
     <<"d","o","n","e">>,
     <<"e","r","r","o","r">>,
     <<"Q","U","E","U","E","D">>,
     <<"R","u","n","n","i","n","g">>,
     <<"D","O","N","E">>,
     <<"D","o","n","e">>,
     <<"E","R","R","O","R">>,
     <<"w","e","i","r","d","-","v","a","l","u","e">>,
     <<"c","o","m","p","l","e","t","e">>,
     <<"d","o","n","e"," ">>}

StatusFieldValues ==
    {Str(s) : s \in StatusStrings \cup {<<>>}}
        \cup {Undefined, JsNull, Num(<<"0">>), Num(<<"1">>), JsTrue}

ErrorFieldValues ==
    {Undefined, Str(<<"b","o","o","m">>),
     Obj(<<"{","\"","c","o","d","e","\"",":","5","}">>)}
DetailFieldValues == {Undefined, Str(<<"w","h","y">>)}
IdFieldValues == {Undefined, Str(<<"o","t","h","e","r">>)}

\* What JSON.parse makes of a status body: an object with these fields, another
\* JSON value (js?.x is undefined for every x), or a SyntaxError.
StatusObjects ==
    [kind : {"object"}, status : StatusFieldValues, error : ErrorFieldValues,
     detail : DetailFieldValues, id : IdFieldValues]
StatusOther ==
    [kind |-> "other", status |-> Undefined, error |-> Undefined,
     detail |-> Undefined, id |-> Undefined]
StatusInvalid ==
    [kind |-> "invalid", status |-> Undefined, error |-> Undefined,
     detail |-> Undefined, id |-> Undefined]
StatusBodies == StatusObjects \cup {StatusOther, StatusInvalid}

\* HTTP statuses of a status answer; 0 stands for a fetch that rejected.
NetworkError == 0
StatusCodes == {200, 404, 500}
StatusResponses ==
    [status : StatusCodes, body : StatusBodies]
        \cup {[status |-> NetworkError, body |-> StatusInvalid]}

\* The status answers the polling callers are run against.
PollStatusResponses ==
    {r \in StatusResponses :
        /\ r.status \in {NetworkError, 200, 500}
        /\ r.status = 200 \/ r.body = StatusInvalid
        /\ r.body.detail = Undefined \/ r.body.error = Undefined
        /\ r.body.id = Undefined \/ (r.body.error = Undefined /\ r.body.detail = Undefined)
        /\ r.body.status \in {Undefined, Num(<<"1">>), Str(<<"q","u","e","u","e","d">>),
                              Str(<<"R","u","n","n","i","n","g">>),
                              Str(<<"D","O","N","E">>), Str(<<"e","r","r","o","r">>),
                              Str(<<"w","e","i","r","d","-","v","a","l","u","e">>)}}

\* res.ok
Ok(status) == status >= 200 /\ status <= 299

Thrown(msg) == [thrown |-> TRUE, message |-> msg, id |-> NULL, status |-> NULL,
                error |-> Undefined]
Job(id, status, error) ==
    [thrown |-> FALSE, message |-> "", id |-> id, status |-> status, error |-> error]

\* ['queued','running','done','error'].includes(status) ? status : 'running'
NormalizeStatus(status) ==
    IF status \in JobStatuses THEN status ELSE Running

\* getFullSyncStatus(jobId) on the answer r of the status endpoint.
getFullSyncStatus(id, r) ==
    IF r.status = NetworkError THEN Thrown("fetch failed")
    ELSE IF ~Ok(r.status) THEN Thrown("Status")
    ELSE IF r.body.kind = "invalid" THEN Thrown("Bad status payload")
    ELSE LET raw == OrValue(r.body.status, Str(<<>>))
         IN  IF raw.t # "string" THEN Thrown("Bad status payload")
             ELSE LET jid == OrValue(r.body.id, Str(id))
                  IN  Job(jid.v,
                          NormalizeStatus(toLowerCase(raw.v)),
                          OrValue(r.body.error, r.body.detail))

(***************************************************************************)
(* startFullSyncAsync                                                      *)
(***************************************************************************)
\* Answers of the start endpoint seen by the polling callers (a 202 answer is an
\* AcceptedResponses record with its status).
StartStatuses == {NetworkError, 200, 201, 202, 500}
StartResponses ==
    [status : StartStatuses,
     xJobId : {NULL, <<"A","1">>}, xJobid : {NULL}, jobIdHeader : {NULL},
     location : {NULL, <<"/","j","o","b","s","/","Q","R","S">>},
     body : {b \in StartBodies :
                \/ b.json = JsonObject(<<"X","Y","Z">>, <<"I","D","V">>)
                \/ b.text = <<"{","\"","o","k","\"",":","t","r","u","e","}">>
                \/ b.text = <<"q","u","e","u","e","d">>}]

\* String(n) for a natural number n.
DigitChars == <<"0","1","2","3","4","5","6","7","8","9">>
RECURSIVE Digits(_)
Digits(n) ==
    IF n < 10 THEN <<DigitChars[n + 1]>>
    ELSE Digits(n \div 10) \o <<DigitChars[(n % 10) + 1]>>

\* `HTTP ${res.status}`
HttpText(status) == <<"H","T","T","P"," ">> \o Digits(status)

\* The characters of the message of the Error startFullSyncAsync throws; NULL for
\* the TypeError of a rejected fetch, whose text the runtime chooses.
MessageText(status, msg) ==
    IF msg = "HTTP" THEN HttpText(status)
    ELSE IF msg = "202 Accepted but no job id was provided."
    THEN <<"2","0","2"," ","A","c","c","e","p","t","e","d"," ","b","u","t"," ","n","o"," ",
           "j","o","b"," ","i","d"," ","w","a","s"," ","p","r","o","v","i","d","e","d",".">>
    ELSE NULL

StartThrown(status, msg) ==
    [kind |-> "thrown", job_id |-> NULL, status |-> status, message |-> msg,
     text |-> MessageText(status, msg)]
StartSync(status) ==
    [kind |-> "sync", job_id |-> NULL, status |-> status, message |-> "", text |-> NULL]
StartAsync(id) ==
    [kind |-> "async", job_id |-> id, status |-> 202, message |-> "", text |-> NULL]
NotStarted ==
    [kind |-> "none", job_id |-> NULL, status |-> 0, message |-> "", text |-> NULL]

\* Faulty variant: the synchronous path does not look at res.ok.
startFullSyncAsyncNoOkCheck(r) ==
    IF r.status = NetworkError THEN StartThrown(r.status, "fetch failed")
    ELSE IF r.status = 202
    THEN LET id == extractJobIdFromResponse(r)
         IN  IF ~Truthy(id)
             THEN StartThrown(r.status, "202 Accepted but no job id was provided.")
             ELSE StartAsync(id)
    ELSE StartSync(r.status)

\* startFullSyncAsync on the answer r of the start endpoint.  On the synchronous
\* path both the parsed and the unparsed branch end in `HTTP <status>` when
\* !res.ok and in kind 'sync' otherwise: the Error thrown inside the try with the
\* body's detail (or the stringified body) is caught by the bare catch of the same
\* try, which throws `HTTP <status>` in its place.
startFullSyncAsync(r) ==
    IF r.status = NetworkError THEN StartThrown(r.status, "fetch failed")
    ELSE IF r.status = 202
    THEN LET id == extractJobIdFromResponse(r)
         IN  IF ~Truthy(id)
             THEN StartThrown(r.status, "202 Accepted but no job id was provided.")
             ELSE StartAsync(id)
    ELSE IF ~Ok(r.status) THEN StartThrown(r.status, "HTTP")
    ELSE StartSync(r.status)

(***************************************************************************)
(* The full-sync proxy route (POST), which forwards the start request      *)
(***************************************************************************)
\* The NextResponse of the proxy.  backend is the status the backend answered
\* and extracted the job id extractJobId found in a 202 answer.
ProxyAnswer(status, job_id, error, body, backend, extracted) ==
    [status |-> status, job_id |-> job_id, error |-> error, body |-> body,
     backend |-> backend, extracted |-> extracted]

NotProxied == ProxyAnswer(0, NULL, "", NULL, 0, NULL)

\* Faulty variant: the 202 branch answers without looking at jobId.
ProxyPOSTNoIdCheck(r) ==
    IF r.status = NetworkError
    THEN ProxyAnswer(500, NULL, "fetch failed", NULL, r.status, NULL)
    ELSE IF r.status = 202
    THEN ProxyAnswer(202, extractJobId(r), "", NULL, r.status, extractJobId(r))
    ELSE ProxyAnswer(r.status, NULL, "", r.body.text, r.status, NULL)

\* POST on the answer r of the backend's /api/sync/full.  The fetch is outside
\* any try: when it rejects, the handler rejects and the framework answers 500.
\* Outside 202 the body is passed through with the backend's status, re-encoded
\* by NextResponse.json when it is JSON and as text otherwise.
ProxyPOST(r) ==
    IF r.status = NetworkError
    THEN ProxyAnswer(500, NULL, "fetch failed", NULL, r.status, NULL)
    ELSE IF r.status = 202
    THEN LET id == extractJobId(r)
         IN  IF ~Truthy(id)
             THEN ProxyAnswer(502, NULL, "202 from backend but no job id found", NULL,
                              r.status, id)
             ELSE ProxyAnswer(202, id, "", NULL, r.status, id)
    ELSE ProxyAnswer(r.status, NULL, "", r.body.text, r.status, NULL)

(***************************************************************************)
(* The two polling callers: runFullSync and the ClientButtons onClick      *)
(***************************************************************************)
MaxPolls == 11
MaxInvocations == 2

InitialDelay == 800
DelayStep == 400
MaxDelay == 4000

FAILED == <<"<failed>">>

\* Faulty variant: the synchronous result is not returned before the loop.
NoShortCircuit(s) == FALSE

\* if (start.kind === 'sync') return ...
ShortCircuits(s) == s.kind = "sync"

\* Faulty variant: only an error ends the loop, done does not.
EndsLoopOnErrorOnly(status) == status = Error

\* A status that ends the loop (return / throw in runFullSync, break in
\* ClientButtons).
EndsLoop(status) == status = Done \/ status = Error

\* Faulty variant: the ClientButtons loop has no try/catch either.
NeverSwallows(c) == FALSE

\* The try/catch around the status check: only the ClientButtons loop has one.
SwallowsStatusFailure(c) == c = "ClientButtons"

\* Faulty variant: the delay grows without the cap.
NextDelayUncapped(d) == d + 400

\* delay = Math.min(delay + 400, 4000)
NextDelay(d) == Min(d + DelayStep, MaxDelay)

\* The cleanup effect returned by useEffect: abort when abortRef.current is set,
\* clearTimeout when timerRef.current is set.  A cleared timer never resolves the
\* pending wait, an aborted fetch rejects.
CleanupPc ==
    IF timerRef # NULL /\ pc = "waiting" THEN "cancelled"
    ELSE IF abortRef # NULL /\ pc = "polling" THEN "aborted"
    ELSE pc

\* Faulty variant: the `finally` block leaves the job fields as they are.
FinallyKeepsJob ==
    /\ fullLoading' = FALSE
    /\ phase' = "idle"
    /\ UNCHANGED <<jobId, jobStatus>>

\* The `finally` block of the ClientButtons handler.
Finally ==
    /\ fullLoading' = FALSE
    /\ phase' = "idle"
    /\ jobId' = NULL
    /\ jobStatus' = NULL

uiVars == <<fullLoading, phase, jobId, jobStatus>>
refVars == <<mounted, abortRef, timerRef>>

\* No status check has succeeded yet.
NoJob == Job(NULL, NULL, Undefined)

\* The {} of JSON.stringify(s.error || {}).
EmptyObject == Obj(<<"{","}">>)

\* `${x}` of a truthy field value: an object becomes [object Object].
TemplateString(x) ==
    IF x.t = "object"
    THEN <<"[","o","b","j","e","c","t"," ","O","b","j","e","c","t","]">>
    ELSE x.v

\* runFullSync on a job in status error:
\*   message = typeof s.error === 'string' ? s.error : JSON.stringify(s.error || {})
\*   throw new Error(message || 'Full sync failed')
ThrownMessage(e) ==
    LET message == IF e.t = "string" THEN e.v ELSE OrValue(e, EmptyObject).v
    IN  Or(message, <<"F","u","l","l"," ","s","y","n","c"," ","f","a","i","l","e","d">>)

\* ClientButtons on a job in status error:
\*   alert(`Full sync failed: ${s.error || 'Unknown error'}`)
AlertedMessage(e) ==
    <<"F","u","l","l"," ","s","y","n","c"," ","f","a","i","l","e","d",":"," ">>
        \o TemplateString(OrValue(e, Str(<<"U","n","k","n","o","w","n"," ","e","r","r","o","r">>)))

\* What caller c reports for a job whose error is e.
Reported(c, e) ==
    IF c = "ClientButtons" THEN AlertedMessage(e) ELSE ThrownMessage(e)

\* The request logs record the first MaxPolls entries.
Log(seq, x) == IF Len(seq) < MaxPolls THEN Append(seq, x) ELSE seq

\* Faulty variant: the phase follows every status the poll reports.
PhaseFollowsStatus(status, ph) ==
    IF status = Running THEN "running"
    ELSE IF status = Queued THEN "queued"
    ELSE ph

\* setJobStatus(s.status); if (s.status === 'running') setPhase('running')
PhaseAfter(status, ph) == IF status = Running THEN "running" ELSE ph

InitPoll ==
    /\ caller \in {"runFullSync", "ClientButtons", "fullSyncProxy"}
    /\ pc = "idle"
    /\ invocation = 0
    /\ startReqs = 0
    /\ start = NotStarted
    /\ delay = 0
    /\ waits = <<>>
    /\ statusLog = <<>>
    /\ lastCheck = NULL
    /\ mounted = TRUE
    /\ abortRef = NULL
    /\ timerRef = NULL
    /\ fullLoading = FALSE
    /\ phase = "idle"
    /\ jobId = NULL
    /\ jobStatus = NULL
    /\ outcome = "none"
    /\ inflight = 0
    /\ lastJob = NoJob
    /\ reported = NULL
    /\ proxied = NotProxied

\* Entry of either caller: the start request is sent.
Begin ==
    /\ pc = "idle"
    /\ invocation < MaxInvocations
    /\ pc' = "starting"
    /\ invocation' = invocation + 1
    /\ startReqs' = 1
    /\ start' = NotStarted
    /\ delay' = 0
    /\ waits' = <<>>
    /\ statusLog' = <<>>
    /\ lastCheck' = NULL
    /\ outcome' = "none"
    /\ lastJob' = NoJob
    /\ reported' = NULL
    /\ UNCHANGED <<inflight, proxied>>

\* ClientButtons full-sync onClick up to its first await.
onClick ==
    /\ caller = "ClientButtons"
    /\ mounted
    /\ ~fullLoading
    /\ Begin
    /\ fullLoading' = TRUE
    /\ phase' = "starting"
    /\ UNCHANGED <<caller, jobId, jobStatus, refVars, pureVars, resolveVars,
                   pageVars>>

\* runFullSync up to its first await.
runFullSync ==
    /\ caller = "runFullSync"
    /\ Begin
    /\ UNCHANGED <<caller, uiVars, refVars, pureVars, resolveVars, pageVars>>

\* Faulty variant: the status is requested twice for one iteration.
SendStatusTwice(s) ==
    /\ statusLog' = Log(Log(statusLog, s.job_id), s.job_id)
    /\ inflight' = inflight + 2

\* Faulty variant: the loop goes on with the id the last status answer reported.
SendStatusReportedId(s) ==
    /\ statusLog' = Log(statusLog, IF lastJob.id # NULL THEN lastJob.id ELSE s.job_id)
    /\ inflight' = inflight + 1

\* The loop issues a status request for start.job_id:
\* await getFullSyncStatus(start.job_id).
SendStatus(s) ==
    /\ statusLog' = Log(statusLog, s.job_id)
    /\ inflight' = inflight + 1

\* The start request settles with answer r.
StartSettles(r) ==
    /\ pc = "starting"
    /\ LET s == startFullSyncAsync(r)
       IN  /\ start' = s
           /\ IF s.kind = "thrown"
              THEN /\ pc' = "idle"
                   /\ outcome' = IF caller = "ClientButtons" THEN "startFailed"
                                 ELSE "rejected"
                   /\ IF caller = "ClientButtons" THEN Finally ELSE UNCHANGED uiVars
                   /\ UNCHANGED <<delay, statusLog, inflight>>
              ELSE IF ShortCircuits(s)
              THEN /\ pc' = "idle"
                   /\ outcome' = IF caller = "ClientButtons" THEN "completed"
                                 ELSE "returned"
                   /\ IF caller = "ClientButtons" THEN Finally ELSE UNCHANGED uiVars
                   /\ UNCHANGED <<delay, statusLog, inflight>>
              ELSE /\ pc' = "polling"
                   /\ delay' = InitialDelay
                   /\ SendStatus(s)
                   /\ outcome' = outcome
                   /\ IF caller = "ClientButtons"
                      THEN /\ phase' = "queued"
                           /\ jobId' = s.job_id
                           /\ UNCHANGED <<fullLoading, jobStatus>>
                      ELSE UNCHANGED uiVars
    /\ UNCHANGED <<caller, invocation, startReqs, waits, lastCheck, lastJob,
                   reported, proxied, refVars, pureVars, resolveVars, pageVars>>

\* The status request in flight settles with answer r.
StatusSettles(r) ==
    /\ pc = "polling"
    /\ inflight' = inflight - 1
    /\ LET s == getFullSyncStatus(start.job_id, r)
       IN  IF s.thrown
           THEN /\ lastCheck' = FAILED
                /\ UNCHANGED <<lastJob, reported>>
                /\ IF SwallowsStatusFailure(caller)
                   THEN /\ pc' = "waiting"
                        /\ waits' = Log(waits, delay)
                        /\ UNCHANGED <<outcome, uiVars>>
                   ELSE /\ pc' = "idle"
                        /\ outcome' = "rejected"
                        /\ UNCHANGED <<waits, uiVars>>
           ELSE /\ lastCheck' = s.status
                /\ lastJob' = s
                /\ reported' = IF EndsLoop(s.status) /\ s.status = Error
                                THEN Reported(caller, s.error)
                                ELSE reported
                /\ IF EndsLoop(s.status)
                   THEN /\ pc' = "idle"
                        /\ outcome' =
                             IF caller = "ClientButtons"
                             THEN (IF s.status = Done THEN "completed" ELSE "failed")
                             ELSE (IF s.status = Done THEN "returned" ELSE "rejected")
                        /\ IF caller = "ClientButtons" THEN Finally
                           ELSE UNCHANGED uiVars
                        /\ UNCHANGED waits
                   ELSE /\ pc' = "waiting"
                        /\ waits' = Log(waits, delay)
                        /\ outcome' = outcome
                        /\ IF caller = "ClientButtons"
                           THEN /\ jobStatus' = s.status
                                /\ phase' = PhaseAfter(s.status, phase)
                                /\ UNCHANGED <<fullLoading, jobId>>
                           ELSE UNCHANGED uiVars
    /\ UNCHANGED <<caller, invocation, startReqs, start, delay, statusLog, proxied,
                   refVars, pureVars, resolveVars, pageVars>>

\* The setTimeout of the wait fires: the delay is raised and the next status
\* request is sent.
PollAgain ==
    /\ pc = "waiting"
    /\ delay' = NextDelay(delay)
    /\ SendStatus(start)
    /\ pc' = "polling"
    /\ UNCHANGED <<caller, invocation, startReqs, start, waits, lastCheck, outcome,
                   lastJob, reported, proxied, uiVars, refVars, pureVars,
                   resolveVars, pageVars>>

\* The same step while fewer than MaxPolls status requests have been sent.
TimerFires ==
    /\ Len(statusLog) < MaxPolls
    /\ PollAgain

\* The component is unmounted: React runs the cleanup effect.
Unmount ==
    /\ caller = "ClientButtons"
    /\ mounted
    /\ mounted' = FALSE
    /\ pc' = CleanupPc
    /\ UNCHANGED <<caller, invocation, startReqs, start, delay, waits, statusLog,
                   lastCheck, abortRef, timerRef, outcome, inflight, lastJob,
                   reported, proxied, uiVars, pureVars, resolveVars, pageVars>>

\* The proxy route is called: it forwards the start request to the backend.
ProxyCalled ==
    /\ caller = "fullSyncProxy"
    /\ pc = "idle"
    /\ invocation < MaxInvocations
    /\ pc' = "forwarding"
    /\ invocation' = invocation + 1
    /\ startReqs' = 1
    /\ proxied' = NotProxied
    /\ UNCHANGED <<caller, start, delay, waits, statusLog, lastCheck, outcome,
                   inflight, lastJob, reported, uiVars, refVars, pureVars,
                   resolveVars, pageVars>>

\* The backend answers the forwarded start request with r.
BackendSettles(r) ==
    /\ caller = "fullSyncProxy"
    /\ pc = "forwarding"
    /\ pc' = "idle"
    /\ proxied' = ProxyPOST(r)
    /\ UNCHANGED <<caller, invocation, startReqs, start, delay, waits, statusLog,
                   lastCheck, outcome, inflight, lastJob, reported, uiVars, refVars,
                   pureVars, resolveVars, pageVars>>

(***************************************************************************)
(* Resolver routes: shipping params GET/POST, shipping sync POST, mapping  *)
(* store GET/POST                                                          *)
(***************************************************************************)
ShippingRoutes == {"shippingParamsGET", "shippingParamsPOST", "shippingSyncPOST"}
MappingRoutes == {"mappingStoreGET", "mappingStorePOST"}
Routes == ShippingRoutes \cup MappingRoutes

\* candidateUrls() of each route file, without the base.
candidateUrls(r) ==
    IF r \in {"shippingParamsGET", "shippingParamsPOST"}
    THEN <<"/admin/api/integration/shipping/params",
           "/admin/api/shipping/params",
           "/api/integration/shipping/params",
           "/api/shipping/params",
           "/integration/shipping/params",
           "/shipping/params">>
    ELSE IF r = "shippingSyncPOST"
    THEN <<"/admin/api/integration/shipping/sync",
           "/admin/api/shipping/sync",
           "/api/integration/shipping/sync",
           "/api/shipping/sync",
           "/integration/shipping/sync",
           "/shipping/sync">>
    ELSE <<"/api/integration/mapping/store",
           "/admin/api/mapping/store",
           "/api/mapping/store",
           "/mapping/store">>

\* What a candidate answers: the status (NetworkError when fetch throws) and the
\* kind of body text: empty (also what r.text().catch(() => "") gives when the
\* body cannot be read), not JSON, or JSON for an object (or an array: typeof is
\* "object" too), a number (or a string or boolean: truthy or not, typeof is not
\* "object") or null.
BodyKinds == {"empty", "html", "object", "number", "null"}
CandidateResponses ==
    {[status |-> NetworkError, body |-> "empty"]}
        \cup [status : {200}, body : BodyKinds]
        \cup {[status |-> 204, body |-> "empty"]}
        \cup [status : {404}, body : {"html", "object"}]

\* text ? JSON.parse(text) : {}
ParsedData(r) ==
    IF r.body = "empty" THEN "{}"
    ELSE IF r.body = "html" THEN "SyntaxError"
    ELSE r.body

\* Statuses for which NextResponse.json(data, { status }) throws a TypeError (a
\* response with a null-body status cannot carry a body).
NullBodyStatus(status) == status \in {204, 205}

\* Faulty variant: the shipping routes validate the shape as the mapping-store
\* routes do.
ShippingAcceptsObjectsOnly(r) ==
    /\ r.status >= 200 /\ r.status <= 299
    /\ r.body \in {"empty", "object"}
    /\ r.status \notin {204, 205}

\* The shipping routes return from inside try { parse; NextResponse.json(data,
\* { status: r.status }) }: the candidate wins unless either throws.
ShippingAccepts(r) ==
    /\ Ok(r.status)
    /\ ParsedData(r) # "SyntaxError"
    /\ ~NullBodyStatus(r.status)

\* Faulty variant: the mapping-store routes take any parsed value.
MappingAcceptsAnyJson(r) ==
    /\ r.status >= 200 /\ r.status <= 299
    /\ r.body # "html"

\* The mapping-store routes: data && typeof data === "object", data being null
\* when JSON.parse throws.
MappingAccepts(r) ==
    /\ Ok(r.status)
    /\ ParsedData(r) \in {"{}", "object"}

\* Faulty variant: the return inside the loop is missing, so no candidate ends
\* the loop.
AcceptsNever(rt, r) == FALSE

Accepts(rt, r) ==
    IF rt \in ShippingRoutes THEN ShippingAccepts(r) ELSE MappingAccepts(r)

\* The status of the answer that passes a candidate's data through.
PassStatus(rt, r) == IF rt \in ShippingRoutes THEN r.status ELSE 200

NoStatus == -1
NoError == ""

\* The record pushed on `tried` for candidate url answering r.
Attempt(rt, url, r) ==
    IF r.status = NetworkError
    THEN [url |-> url,
          status |-> IF rt = "mappingStoreGET" THEN 0 ELSE NoStatus,
          ok |-> FALSE,
          error |-> "exception"]
    ELSE [url |-> url,
          status |-> r.status,
          ok |-> Ok(r.status),
          error |-> IF rt \in ShippingRoutes
                    THEN (IF Ok(r.status) THEN "Non-JSON response despite 2xx"
                          ELSE NoError)
                    ELSE IF rt = "mappingStoreGET" /\ ~Ok(r.status) THEN "HTTP"
                    ELSE NoError]

\* The mapping-store routes push the attempt before they look at res.ok, the
\* shipping routes only when the candidate failed.
PushesBeforeCheck(rt) == rt \in MappingRoutes

\* Faulty variant: a failed candidate ends the loop (break for continue).
StopsAfterFailure(rt) == FALSE

\* After a failed candidate the for loop goes on with the next url.
ContinuesAfterFailure(rt) == TRUE

\* The message of the 502 answer.
ExhaustedError(rt) ==
    IF rt \in {"shippingParamsPOST", "mappingStorePOST"}
    THEN "Save failed at integration"
    ELSE "Not Found at integration"

NoAnswer == [status |-> 0, data |-> "", from |-> 0, error |-> "", tried |-> <<>>]

InitResolve ==
    /\ route \in Routes
    /\ rpc = "idle"
    /\ requested = <<>>
    /\ responses = <<>>
    /\ tried = <<>>
    /\ answer = NoAnswer

\* Faulty variant: the candidates are probed in parallel.
RequestsAllAtOnce(urls) == urls

\* for (const url of urls) { ... await fetch(url, ...) ... }: the loop starts by
\* requesting the first url and awaits its answer.
FirstRequests(urls) == <<urls[1]>>

\* The handler is called and requests the first candidate.
Invoke ==
    /\ rpc = "idle"
    /\ rpc' = "inflight"
    /\ requested' = FirstRequests(candidateUrls(route))
    /\ UNCHANGED <<route, responses, tried, answer, pureVars, pollVars, pageVars>>

\* The candidate in flight settles with r.
CandidateSettles(r) ==
    /\ rpc = "inflight"
    /\ LET urls == candidateUrls(route)
           i == Len(requested)
           pushed == Append(tried, Attempt(route, urls[i], r))
       IN  /\ responses' = Append(responses, r)
           /\ IF Accepts(route, r)
              THEN /\ tried' = IF PushesBeforeCheck(route) THEN pushed ELSE tried
                   /\ answer' = [status |-> PassStatus(route, r),
                                 data |-> ParsedData(r), from |-> i,
                                 error |-> "", tried |-> <<>>]
                   /\ rpc' = "answered"
                   /\ UNCHANGED requested
              ELSE /\ tried' = pushed
                   /\ IF i < Len(urls) /\ ContinuesAfterFailure(route)
                      THEN /\ requested' = Append(requested, urls[i + 1])
                           /\ UNCHANGED <<rpc, answer>>
                      ELSE /\ answer' = [status |-> 502, data |-> "", from |-> 0,
                                         error |-> ExhaustedError(route),
                                         tried |-> pushed]
                           /\ rpc' = "answered"
                           /\ UNCHANGED requested
    /\ UNCHANGED <<route, pureVars, pollVars, pageVars>>

(***************************************************************************)
(* Configuration: what each backend-calling operation does with the        *)
(* environment before / at its first request                               *)
(***************************************************************************)
\* process.env: "" stands for a variable that is unset or empty.
Environments ==
    [INTEGRATION_BASE_URL : {"", "http://backend:8000"},
     INTEGRATION_ADMIN_USER : {"", "iadmin"},
     INTEGRATION_ADMIN_PASS : {"", "isecret"},
     ADMIN_USER : {"", "admin"},
     ADMIN_PASS : {"", "secret"}]

\* a || b on environment strings.
OrEnv(a, b) == IF a # "" THEN a ELSE b

\* The resolver routes' fallback base.
DefaultBase == "http://integration:8000"

\* The Authorization header of a request: absent, or Basic base64(user:pass).
NoAuthorization == [sent |-> FALSE, user |-> "", pass |-> ""]
Basic(user, pass) == [sent |-> TRUE, user |-> user, pass |-> pass]

\* What an operation did: the error it threw before / instead of fetching ("" when
\* none) and the backend requests it sent.
ThrewBeforeRequest(error) == [threw |-> error, requests |-> <<>>]
Requested(base, path, authorization) ==
    [threw |-> "",
     requests |-> <<[base |-> base, path |-> path, authorization |-> authorization]>>]

\* Faulty variant: callMiddleware without assertEnv().
callMiddlewareNoAssert(env) ==
    Requested(env.INTEGRATION_BASE_URL, "/path", Basic(env.ADMIN_USER, env.ADMIN_PASS))

\* callMiddleware(path) up to its fetch: assertEnv() throws when BASE, USER or
\* PASS is empty.
callMiddleware(env) ==
    LET BASE == OrEnv(env.INTEGRATION_BASE_URL, "")
        USER == OrEnv(env.ADMIN_USER, "")
        PASS == OrEnv(env.ADMIN_PASS, "")
    IN  IF BASE = "" \/ USER = "" \/ PASS = ""
        THEN ThrewBeforeRequest("Missing required environment variables")
        ELSE Requested(BASE, "/path", Basic(USER, PASS))

\* The full-sync proxy POST up to its fetch.  base is read with a non-null
\* assertion and not checked: unset, the url is `undefined/api/sync/full`, which
\* fetch rejects with a TypeError (invalid URL) without sending anything.
\* basicAuth() encodes whatever INTEGRATION_ADMIN_USER / _PASS hold, '' included.
ProxyFetch(env) ==
    LET base == env.INTEGRATION_BASE_URL
        u == OrEnv(env.INTEGRATION_ADMIN_USER, "")
        p == OrEnv(env.INTEGRATION_ADMIN_PASS, "")
    IN  IF base = ""
        THEN ThrewBeforeRequest("TypeError")
        ELSE Requested(base, "/api/sync/full", Basic(u, p))

\* A resolver route up to its first fetch: BASE falls back to DefaultBase and
\* authHeader() / buildAuthHeader() is undefined when USER or PASS is empty.
ResolverFetch(rt, env) ==
    LET BASE == OrEnv(env.INTEGRATION_BASE_URL, DefaultBase)
        USER == OrEnv(env.INTEGRATION_ADMIN_USER, OrEnv(env.ADMIN_USER, ""))
        PASS == OrEnv(env.INTEGRATION_ADMIN_PASS, OrEnv(env.ADMIN_PASS, ""))
    IN  Requested(BASE, candidateUrls(rt)[1],
                  IF USER = "" \/ PASS = "" THEN NoAuthorization
                  ELSE Basic(USER, PASS))

(***************************************************************************)
(* Specifications                                                          *)
(***************************************************************************)
\* data === null / no cached preview.
NoData == [kind |-> "none", epoch |-> 0]

\* No dashboard handler has finished yet.
NothingDone == [fn |-> "none", synced |-> FALSE, refetched |-> FALSE, stale |-> FALSE]

\* The ClientButtons preview button and the mounts of the component are not
\* exercised.
IdleButtons ==
    /\ previewLoading = FALSE
    /\ handlers = <<>>
    /\ instance = 1

\* The dashboard page is not exercised.
IdleDash ==
    /\ page = "none"
    /\ gate = "checking"
    /\ data = NoData
    /\ loading = FALSE
    /\ autopreviewDone = FALSE
    /\ cache = NoData
    /\ backendEpoch = 0
    /\ tasks = <<>>
    /\ autoPreviews = 0
    /\ effectRuns = 0
    /\ clicks = 0
    /\ lastDone = NothingDone

IdlePage == IdleButtons /\ IdleDash

IdlePure == res = NULL /\ ret = NULL

IdlePoll ==
    /\ caller = "none"
    /\ pc = "off"
    /\ invocation = 0
    /\ startReqs = 0
    /\ start = NotStarted
    /\ delay = 0
    /\ waits = <<>>
    /\ statusLog = <<>>
    /\ lastCheck = NULL
    /\ mounted = FALSE
    /\ abortRef = NULL
    /\ timerRef = NULL
    /\ fullLoading = FALSE
    /\ phase = "idle"
    /\ jobId = NULL
    /\ jobStatus = NULL
    /\ outcome = "none"
    /\ inflight = 0
    /\ lastJob = NoJob
    /\ reported = NULL
    /\ proxied = NotProxied

IdleResolve ==
    /\ route = "none"
    /\ rpc = "off"
    /\ requested = <<>>
    /\ responses = <<>>
    /\ tried = <<>>
    /\ answer = NoAnswer

\* The polling callers.
Init == InitPoll /\ IdlePure /\ IdleResolve /\ IdlePage

Next ==
    \/ onClick
    \/ runFullSync
    \/ \E r \in StartResponses : StartSettles(r)
    \/ \E r \in PollStatusResponses : StatusSettles(r)
    \/ TimerFires
    \/ Unmount
    \/ ProxyCalled
    \/ \E r \in StartResponses : BackendSettles(r)

Spec == Init /\ [][Next]_vars

\* The job id the status endpoint is asked about in the pure-function
\* specifications.
PolledJobId == <<"A","1">>

\* The polling callers with no bound on the number of polls, for liveness, run
\* against a few answers of each kind.  Timers fire and pending requests settle
\* (weak fairness); a backend that eventually reports done or error is one whose
\* terminal answers, being possible again and again while the loop polls,
\* eventually arrive (strong fairness).
LiveStartResponses ==
    {r \in StartResponses :
        /\ r.location = NULL
        /\ r.body.text = <<"{","\"","o","k","\"",":","t","r","u","e","}">>}

LiveStatusResponses ==
    {r \in PollStatusResponses :
        /\ r.status \in {NetworkError, 200}
        /\ r.body.id = Undefined
        /\ r.body.detail = Undefined
        /\ r.body.error = Undefined
              \/ (r.body.error = Str(<<"b","o","o","m">>)
                    /\ r.body.status = Str(<<"e","r","r","o","r">>))
        /\ r.body.status \in {Undefined, Str(<<"q","u","e","u","e","d">>),
                              Str(<<"R","u","n","n","i","n","g">>),
                              Str(<<"D","O","N","E">>), Str(<<"e","r","r","o","r">>)}}

TerminalResponses ==
    {r \in LiveStatusResponses :
        LET s == getFullSyncStatus(PolledJobId, r)
        IN  ~s.thrown /\ s.status \in {Done, Error}}

InitLive == Init /\ caller \in {"runFullSync", "ClientButtons"}

NextLive ==
    \/ onClick
    \/ runFullSync
    \/ \E r \in LiveStartResponses : StartSettles(r)
    \/ \E r \in LiveStatusResponses : StatusSettles(r)
    \/ PollAgain
    \/ Unmount

Fairness ==
    /\ WF_vars(PollAgain)
    /\ WF_vars(\E r \in LiveStartResponses : StartSettles(r))
    /\ WF_vars(\E r \in LiveStatusResponses : StatusSettles(r))
    /\ SF_vars(\E r \in TerminalResponses : StatusSettles(r))

SpecLive == InitLive /\ [][NextLive]_vars /\ Fairness

\* The resolver routes.
InitResolveSpec == InitResolve /\ IdlePure /\ IdlePoll /\ IdlePage

NextResolve ==
    \/ Invoke
    \/ \E r \in CandidateResponses : CandidateSettles(r)

SpecResolve == InitResolveSpec /\ [][NextResolve]_vars

\* Job-id extraction on every 202 answer of AcceptedResponses.
NotCalled == [by |-> "none", value |-> NULL]

InitExtract ==
    /\ res \in AcceptedResponses
    /\ ret = NotCalled
    /\ IdlePoll
    /\ IdleResolve
    /\ IdlePage

CallExtractJobIdFromResponse ==
    /\ ret = NotCalled
    /\ ret' = [by |-> "extractJobIdFromResponse", value |-> extractJobIdFromResponse(res)]
    /\ UNCHANGED <<res, pollVars, resolveVars, pageVars>>

CallExtractJobId ==
    /\ ret = NotCalled
    /\ ret' = [by |-> "extractJobId", value |-> extractJobId(res)]
    /\ UNCHANGED <<res, pollVars, resolveVars, pageVars>>

NextExtract == CallExtractJobIdFromResponse \/ CallExtractJobId

SpecExtract == InitExtract /\ [][NextExtract]_vars

\* The backend-calling operations under every environment.
InitConfig ==
    /\ res \in Environments
    /\ ret = NotCalled
    /\ IdlePoll
    /\ IdleResolve
    /\ IdlePage

CallCallMiddleware ==
    /\ ret = NotCalled
    /\ ret' = [by |-> "callMiddleware", value |-> callMiddleware(res)]
    /\ UNCHANGED <<res, pollVars, resolveVars, pageVars>>

CallProxy ==
    /\ ret = NotCalled
    /\ ret' = [by |-> "fullSyncProxy", value |-> ProxyFetch(res)]
    /\ UNCHANGED <<res, pollVars, resolveVars, pageVars>>

CallResolver(rt) ==
    /\ ret = NotCalled
    /\ ret' = [by |-> rt, value |-> ResolverFetch(rt, res)]
    /\ UNCHANGED <<res, pollVars, resolveVars, pageVars>>

NextConfig ==
    \/ CallCallMiddleware
    \/ CallProxy
    \/ \E rt \in Routes : CallResolver(rt)

SpecConfig == InitConfig /\ [][NextConfig]_vars

\* startFullSyncAsync on every answer of StartResponses.
InitStart ==
    /\ res \in StartResponses
    /\ ret = NotCalled
    /\ IdlePoll
    /\ IdleResolve
    /\ IdlePage

CallStartFullSyncAsync ==
    /\ ret = NotCalled
    /\ ret' = [by |-> "startFullSyncAsync", value |-> startFullSyncAsync(res)]
    /\ UNCHANGED <<res, pollVars, resolveVars, pageVars>>

NextStart == CallStartFullSyncAsync

SpecStart == InitStart /\ [][NextStart]_vars

\* getFullSyncStatus on every answer of StatusResponses.
InitStatus ==
    /\ res \in StatusResponses
    /\ ret = NotCalled
    /\ IdlePoll
    /\ IdleResolve
    /\ IdlePage

CallGetFullSyncStatus ==
    /\ ret = NotCalled
    /\ ret' = [by |-> "getFullSyncStatus", value |-> getFullSyncStatus(PolledJobId, res)]
    /\ UNCHANGED <<res, pollVars, resolveVars, pageVars>>

NextStatus == CallGetFullSyncStatus

SpecStatus == InitStatus /\ [][NextStatus]_vars

(***************************************************************************)
(* Properties                                                              *)
(***************************************************************************)

\* C1: when the start request is answered 200 (startFullSyncAsync returns kind
\* 'sync'), the invocation sends no status request, in runFullSync and in the
\* ClientButtons handler.
C1_SyncNeverPolls ==
    (start.kind = "sync" /\ start.status = 200) => (statusLog = <<>> /\ pc = "idle")

C1_Witness ==
    /\ start.kind = "sync"
    /\ start.status = 200
    /\ outcome \in {"completed", "returned"}

\* C2: once a status check of a session returned done or error, the session is
\* over and no further status request is sent for that job id.
C2_NoPollAfterTerminal ==
    [][(lastCheck = Done \/ lastCheck = Error)
          => (pc = "idle" /\ Len(statusLog') <= Len(statusLog))]_vars

C2_Witness ==
    /\ lastCheck = Done
    /\ Len(statusLog) >= 3
    /\ pc = "idle"

\* C3: in the ClientButtons loop a failed status check does not end the session:
\* the loop waits the current delay, and the next status request carries the
\* same job id.
C3_ClientButtonsToleratesFailure ==
    [][caller = "ClientButtons" =>
        /\ (pc = "polling" /\ pc' # "polling" /\ lastCheck' = FAILED)
              => (/\ pc' = "waiting"
                  /\ waits' = Append(waits, delay)
                  /\ outcome' = outcome
                  /\ fullLoading')
        /\ (pc = "waiting" /\ lastCheck = FAILED /\ pc' # "waiting")
              => (/\ pc' = "polling"
                  /\ statusLog' = Append(statusLog, statusLog[Len(statusLog)]))]_vars

C3_Witness ==
    /\ caller = "ClientButtons"
    /\ lastCheck = FAILED
    /\ pc = "polling"
    /\ Len(statusLog) >= 2

\* C4: runFullSync ignores a failed status check and retries on the next tick
\* instead of rejecting.
C4_RunFullSyncToleratesFailure ==
    (caller = "runFullSync" /\ lastCheck = FAILED) => pc \in {"waiting", "polling"}

\* C5: after the ClientButtons component is unmounted, the session sends no
\* further status request and no pending wait resumes the loop.
C5_NoPollAfterUnmount ==
    [][~mounted => (statusLog' = statusLog /\ (pc = "waiting" => pc' = "waiting"))]_vars

\* C6: for a 202 answer both extraction functions return the first non-empty of
\* x-job-id, x-jobid, job-id, the last '/'-separated segment of Location, the
\* body's job_id, the body's id.
C6_ExtractionOrder ==
    ret.by # "none" =>
        LET loc == res.location
            slashes == {i \in 1..Len(loc) : loc[i] = "/"}
            segment == IF loc = NULL THEN NULL
                       ELSE IF slashes = {} THEN loc
                       ELSE SubSeq(loc, 1 + (CHOOSE i \in slashes :
                                                \A k \in slashes : k <= i), Len(loc))
            parsed == res.body.text # NULL /\ res.body.text # <<>>
                        /\ res.body.json.kind # "invalid"
            sources == <<res.xJobId, res.xJobid, res.jobIdHeader, segment,
                         IF parsed THEN res.body.json.job_id ELSE NULL,
                         IF parsed THEN res.body.json.id ELSE NULL>>
            filled == {i \in 1..Len(sources) : sources[i] # NULL /\ sources[i] # <<>>}
        IN  filled # {} =>
                ret.value = sources[CHOOSE i \in filled : \A k \in filled : i <= k]

C6_Witness ==
    /\ ret.by = "extractJobId"
    /\ res.xJobId = NULL /\ res.xJobid = <<>> /\ res.jobIdHeader = NULL
    /\ res.location = <<"/","j","o","b","s","/","Q","R","S">>
    /\ res.body.json.job_id = <<"X","Y","Z">>
    /\ ret.value = <<"Q","R","S">>

\* C7: for every 2xx status answer with a JSON body getFullSyncStatus returns a
\* job whose status is queued, running, done or error: a recognised value
\* (case-insensitively) is itself, anything else is running.
C7_StatusAlwaysNormalized ==
    (ret.by = "getFullSyncStatus" /\ res.status \in 200..299
        /\ res.body.kind # "invalid")
    => /\ ~ret.value.thrown
       /\ ret.value.status \in {Queued, Running, Done, Error}
       /\ (res.body.status.t = "string"
            /\ toLowerCase(res.body.status.v) \in {Queued, Running, Done, Error})
          => ret.value.status = toLowerCase(res.body.status.v)
       /\ (res.body.status.t # "string"
            \/ toLowerCase(res.body.status.v) \notin {Queued, Running, Done, Error})
          => ret.value.status = Running

\* C8: the k-th wait of a polling loop is min(800 + 400*(k-1), 4000) ms,
\* whatever the status checks returned.
C8_Backoff ==
    \A k \in 1..Len(waits) :
        /\ waits[k] = (IF 800 + 400 * (k - 1) <= 4000 THEN 800 + 400 * (k - 1) ELSE 4000)
        /\ (k > 1 => waits[k - 1] <= waits[k])
        /\ (k >= 9 => waits[k] = 4000)

C8_Witness ==
    /\ Len(waits) >= 10
    /\ waits[1] = 800
    /\ waits[10] = 4000
    /\ lastCheck = FAILED

\* C9 as stated: the result is the parsed body of the first candidate that
\* answered 2xx with a JSON-parsable body, and no later candidate is requested.
C9_FirstParsableWins ==
    rpc = "answered" =>
        LET parsable == {i \in 1..Len(responses) :
                            /\ responses[i].status \in 200..299
                            /\ responses[i].body \in {"object", "number", "null"}}
        IN  (parsable # {} \/ answer.status # 502) =>
                /\ parsable # {}
                /\ answer.status # 502
                /\ answer.from = SetMin(parsable)
                /\ answer.data = responses[answer.from].body
                /\ Len(requested) = answer.from

\* C9 amended: the result comes from the first candidate the route accepts, and
\* no later candidate is requested.  A route accepts a 2xx answer whose body is
\* empty (the result is {}) or parses as JSON, except that the shipping routes
\* reject a 204/205 answer and the mapping-store routes reject a body that
\* parses to a non-object value.
C9_FirstAcceptedWins ==
    rpc = "answered" =>
        LET accepted == {i \in 1..Len(responses) :
                            /\ responses[i].status \in 200..299
                            /\ IF route \in ShippingRoutes
                               THEN /\ responses[i].status \notin {204, 205}
                                    /\ responses[i].body # "html"
                               ELSE responses[i].body \in {"empty", "object"}}
        IN  (accepted # {} \/ answer.status # 502) =>
                /\ accepted # {}
                /\ answer.status # 502
                /\ answer.from = SetMin(accepted)
                /\ answer.data = (IF responses[answer.from].body = "empty" THEN "{}"
                                  ELSE responses[answer.from].body)
                /\ Len(requested) = answer.from
                /\ \A i \in 1..Len(requested) : requested[i] = candidateUrls(route)[i]

C9_Witness ==
    /\ rpc = "answered"
    /\ Len(responses) = 3
    /\ responses[1] = [status |-> 404, body |-> "html"]
    /\ responses[2] = [status |-> 200, body |-> "html"]
    /\ responses[3] = [status |-> 200, body |-> "object"]
    /\ answer.from = 3
    /\ answer.data = "object"
    /\ route = "mappingStoreGET"

\* C10 as stated: if every candidate fails (non-2xx, network exception, 2xx with
\* an unparseable body) the route answers 502 with one tried entry per candidate
\* in declared order, and each failure is followed by the next candidate.
C10_AllFailedGives502 ==
    LET failed(r) == \/ r.status = NetworkError
                     \/ r.status \notin 200..299
                     \/ r.body \in {"empty", "html"}
        urls == candidateUrls(route)
    IN  (rpc \in {"inflight", "answered"}
            /\ \A i \in 1..Len(responses) : failed(responses[i]))
        => \/ /\ rpc = "inflight"
              /\ Len(requested) = Len(responses) + 1
           \/ /\ rpc = "answered"
              /\ requested = urls
              /\ answer.status = 502
              /\ Len(answer.tried) = Len(urls)
              /\ \A i \in 1..Len(urls) : answer.tried[i].url = urls[i]

\* C10 amended: the same, a failed candidate being one the route rejects: a
\* non-2xx status, a network exception, a 2xx answer with a non-empty body that
\* is not JSON, for the shipping routes a 204/205 answer, for the mapping-store
\* routes a body that parses to a non-object value.
C10_AllRejectedGives502 ==
    LET failed(r) == \/ r.status = NetworkError
                     \/ r.status \notin 200..299
                     \/ r.body = "html"
                     \/ (route \in ShippingRoutes /\ r.status \in {204, 205})
                     \/ (route \in MappingRoutes /\ r.body \in {"number", "null"})
        urls == candidateUrls(route)
    IN  (rpc \in {"inflight", "answered"}
            /\ \A i \in 1..Len(responses) : failed(responses[i]))
        => \/ /\ rpc = "inflight"
              /\ Len(requested) = Len(responses) + 1
           \/ /\ rpc = "answered"
              /\ requested = urls
              /\ answer.status = 502
              /\ Len(answer.tried) = Len(urls)
              /\ \A i \in 1..Len(urls) : answer.tried[i].url = urls[i]

C10_Witness ==
    /\ rpc = "answered"
    /\ answer.status = 502
    /\ Len(answer.tried) = 6
    /\ responses[1].status = NetworkError
    /\ responses[2] = [status |-> 200, body |-> "html"]
    /\ responses[3].status = 404
    /\ responses[6].status = 204

\* C11: a start request answered 202 from which no job id can be extracted makes
\* startFullSyncAsync reject at once: the invocation is over, its start request
\* was sent once and it sends no status request.  In the same situation the
\* full-sync proxy route answers 502 with an error body.
C11_NoJobIdIsFatal ==
    /\ (start.kind # "none" /\ start.status = 202 /\ ~Truthy(start.job_id))
        => /\ start.kind = "thrown"
           /\ pc = "idle"
           /\ outcome \in {"rejected", "startFailed"}
           /\ startReqs = 1
           /\ statusLog = <<>>
           /\ inflight = 0
    /\ (proxied.backend = 202 /\ ~Truthy(proxied.extracted))
        => /\ proxied.status = 502
           /\ proxied.error # ""
           /\ proxied.job_id = NULL
           /\ startReqs = 1

C11_Witness ==
    /\ caller = "ClientButtons"
    /\ start.kind = "thrown"
    /\ start.status = 202
    /\ ~Truthy(start.job_id)
    /\ outcome = "startFailed"
    /\ statusLog = <<>>
    /\ ~fullLoading

\* C12 as stated: every start answer with a status other than 200 and 202 makes
\* startFullSyncAsync reject; only a 200 yields kind 'sync' and only a 202 yields
\* kind 'async'.
C12_Only200IsSync ==
    start.kind # "none"
        => /\ start.status \notin {200, 202} => start.kind = "thrown"
           /\ start.kind = "sync" => start.status = 200
           /\ start.kind = "async" => start.status = 202

\* C12 amended: every start answer with a status outside 200..299 (and every
\* fetch that fails) makes startFullSyncAsync reject; every 2xx status other than
\* 202 yields kind 'sync'; only a 202 yields kind 'async', and a 202 yields
\* nothing else but a rejection.
C12_Every2xxButAcceptedIsSync ==
    start.kind # "none"
        => /\ start.status \notin 200..299 => start.kind = "thrown"
           /\ start.status \in (200..299) \ {202} => start.kind = "sync"
           /\ start.kind = "async" => start.status = 202
           /\ start.status = 202 => start.kind \in {"async", "thrown"}

C12_Witness ==
    /\ start.kind = "sync"
    /\ start.status = 201
    /\ pc = "idle"
    /\ outcome \in {"completed", "returned"}

\* C13: when a status check reports status error the invocation ends as a
\* failure, never as a success, and what it throws (runFullSync) or alerts
\* (ClientButtons) carries the error the backend supplied in the error or detail
\* field of the status answer; the ClientButtons handler stops polling.
C13_ErrorCarried ==
    LET \* part occurs in text as a run of consecutive characters
        Contains(text, part) ==
            \E i \in 1..(Len(text) - Len(part) + 1) :
                SubSeq(text, i, i + Len(part) - 1) = part
    IN
    (pc = "idle" /\ lastCheck = Error)
        => /\ outcome \in {"rejected", "failed"}
           /\ lastJob.status = Error
           /\ reported # NULL
           /\ TruthyValue(lastJob.error) => Contains(reported, lastJob.error.v)
           /\ caller = "ClientButtons" => ~fullLoading /\ phase = "idle"

\* C14: within one polling session at most one status request is in flight, and
\* a status request after the first is sent only when the previous one has
\* settled (resolved or failed) and the wait scheduled after it has elapsed.
C14_OneStatusInFlight ==
    [][/\ inflight' <= 1
       /\ inflight' = 1 <=> pc' = "polling"
       /\ Len(statusLog') > Len(statusLog)
            => /\ inflight = 0
               /\ Len(statusLog') = Len(statusLog) + 1
               /\ statusLog # <<>>
                    => /\ pc = "waiting"
                       /\ lastCheck # NULL
                       /\ Len(waits) = Len(statusLog)]_vars

C14_Witness ==
    /\ caller = "ClientButtons"
    /\ pc = "polling"
    /\ inflight = 1
    /\ Len(statusLog) = 3
    /\ Len(waits) = 2
    /\ lastCheck = FAILED

\* C15: within one resolver call at most one candidate request is in flight,
\* candidate i+1 is requested only after candidate i has answered or failed, and
\* the requests are made in the declared order of candidateUrls().
C15_CandidatesSequential ==
    [][/\ Len(requested') - Len(responses') \in {0, 1}
       /\ Len(requested') - Len(responses') = 1 <=> rpc' = "inflight"
       /\ requested' # requested
            => /\ Len(responses') = Len(requested)
               /\ Len(requested') = Len(requested) + 1
               /\ requested' = SubSeq(candidateUrls(route), 1, Len(requested'))]_vars

C15_Witness ==
    /\ route = "mappingStoreGET"
    /\ rpc = "inflight"
    /\ requested = <<"/api/integration/mapping/store", "/admin/api/mapping/store",
                     "/api/mapping/store">>
    /\ Len(responses) = 2
    /\ responses[1].status = NetworkError
    /\ responses[2].status = 404

\* The base URL or the credentials the operation reads are not configured.
Misconfigured(op, env) ==
    \/ env.INTEGRATION_BASE_URL = ""
    \/ IF op = "callMiddleware" THEN env.ADMIN_USER = "" \/ env.ADMIN_PASS = ""
       ELSE IF op = "fullSyncProxy"
       THEN env.INTEGRATION_ADMIN_USER = "" \/ env.INTEGRATION_ADMIN_PASS = ""
       ELSE \/ (env.INTEGRATION_ADMIN_USER = "" /\ env.ADMIN_USER = "")
            \/ (env.INTEGRATION_ADMIN_PASS = "" /\ env.ADMIN_PASS = "")

\* C16 as stated: when the backend base URL or the admin credentials are not
\* configured, every backend-calling operation (callMiddleware, the full-sync
\* proxy, the resolver routes) fails with a configuration error and sends no
\* request to the backend.
C16_MisconfiguredNeverRequests ==
    (ret.by # "none" /\ Misconfigured(ret.by, res))
        => /\ ret.value.threw = "Missing required environment variables"
           /\ ret.value.requests = <<>>

\* C16 amended: callMiddleware fails with the configuration error, without a
\* request, when INTEGRATION_BASE_URL, ADMIN_USER or ADMIN_PASS is missing.  The
\* other operations do not check their configuration.  A resolver route sends
\* its request anyway, to http://integration:8000 when the base URL is missing
\* and without an Authorization header when a user or password is missing.  The
\* full-sync proxy sends its request with the credentials it has, empty ones
\* included, unless the base URL is missing: then it sends nothing and fails on
\* the invalid URL, not with a configuration error.
C16_OnlyCallMiddlewareChecks ==
    (ret.by # "none" /\ Misconfigured(ret.by, res))
        => IF ret.by = "callMiddleware"
           THEN /\ ret.value.threw = "Missing required environment variables"
                /\ ret.value.requests = <<>>
           ELSE IF ret.by = "fullSyncProxy"
           THEN IF res.INTEGRATION_BASE_URL = ""
                THEN ret.value.threw = "TypeError" /\ ret.value.requests = <<>>
                ELSE /\ ret.value.threw = ""
                     /\ Len(ret.value.requests) = 1
                     /\ ret.value.requests[1].base = res.INTEGRATION_BASE_URL
                     /\ ret.value.requests[1].authorization =
                            [sent |-> TRUE, user |-> res.INTEGRATION_ADMIN_USER,
                             pass |-> res.INTEGRATION_ADMIN_PASS]
           ELSE /\ ret.value.threw = ""
                /\ Len(ret.value.requests) = 1
                /\ ret.value.requests[1].base =
                       IF res.INTEGRATION_BASE_URL = "" THEN "http://integration:8000"
                       ELSE res.INTEGRATION_BASE_URL
                /\ ret.value.requests[1].authorization.sent
                       <=> /\ res.INTEGRATION_ADMIN_USER # "" \/ res.ADMIN_USER # ""
                           /\ res.INTEGRATION_ADMIN_PASS # "" \/ res.ADMIN_PASS # ""

C16_Witness ==
    /\ ret.by = "callMiddleware"
    /\ res.INTEGRATION_BASE_URL # ""
    /\ res.ADMIN_USER # ""
    /\ res.ADMIN_PASS = ""
    /\ ret.value.threw = "Missing required environment variables"
    /\ ret.value.requests = <<>>

\* C17: when status checks settle, timers fire and the backend eventually
\* reports done or error, a polling loop that has started eventually terminates
\* and the ClientButtons handler returns the UI to idle (fullLoading false); and
\* the loop is left only on a terminal status or, in runFullSync, a failed check,
\* never because of the number of polls made or the time waited.
C17_PollingTerminates ==
    /\ (pc \in {"polling", "waiting"})
        ~> (pc = "idle" /\ (caller = "ClientButtons" => ~fullLoading /\ phase = "idle"))
    /\ [][(pc \in {"polling", "waiting"} /\ pc' \notin {"polling", "waiting"})
            => \/ lastCheck' \in {Done, Error}
               \/ caller = "runFullSync" /\ lastCheck' = FAILED]_vars

C17_Witness ==
    /\ caller = "ClientButtons"
    /\ pc = "idle"
    /\ outcome = "completed"
    /\ Len(statusLog) = MaxPolls
    /\ Len(waits) = MaxPolls
    /\ delay = MaxDelay
    /\ ~fullLoading

\* C18: during a ClientButtons full-sync session the phase only moves forward
\* through starting, queued, running, or back to idle when the session ends: it
\* becomes running on a poll that reports running (or a status normalised to
\* running), and a later poll reporting queued does not move it back.
C18_PhaseOrder ==
    [][caller = "ClientButtons"
        => /\ phase' # phase
                => \/ phase' = "idle"
                   \/ phase = "idle" /\ phase' = "starting"
                   \/ phase = "starting" /\ phase' = "queued"
                   \/ phase = "queued" /\ phase' = "running"
           /\ (pc = "polling" /\ pc' = "waiting" /\ lastCheck' = Running)
                => phase' = "running"
           /\ (phase = "running" /\ pc' \in {"polling", "waiting"})
                => phase' = "running"]_vars

C18_Witness ==
    /\ caller = "ClientButtons"
    /\ pc = "waiting"
    /\ phase = "running"
    /\ lastCheck = Queued
    /\ jobStatus = Queued
    /\ Len(statusLog) >= 2

\* C19: each full-sync invocation sends exactly one start request and tracks one
\* job: every status request of the session carries the job id extracted from
\* the start response, also after a status answer that reports another id.
C19_OneJobPerInvocation ==
    /\ invocation > 0 => startReqs = 1
    /\ statusLog # <<>> => start.kind = "async" /\ Truthy(start.job_id)
    /\ \A i \in 1..Len(statusLog) : statusLog[i] = start.job_id

C19_Witness ==
    /\ pc = "polling"
    /\ Len(statusLog) = 3
    /\ lastJob.id = <<"o","t","h","e","r">>
    /\ start.job_id = <<"Q","R","S">>
    /\ statusLog[3] = <<"Q","R","S">>
    /\ startReqs = 1

\* The first run of at least 10 characters of [A-Za-z0-9_-] in text, taken to its
\* end, or NULL when text has none.
FirstToken(text) ==
    LET isToken(i, j) == /\ j - i + 1 >= 10
                         /\ \A k \in i..j : text[k] \in WordChars
        starts == IF text = NULL THEN {}
                  ELSE {i \in 1..Len(text) : \E j \in i..Len(text) : isToken(i, j)}
    IN  IF starts = {} THEN NULL
        ELSE LET i == CHOOSE a \in starts : \A b \in starts : a <= b
                 j == CHOOSE a \in i..Len(text) :
                        /\ isToken(i, a)
                        /\ \A b \in i..Len(text) : isToken(i, b) => b <= a
             IN  SubSeq(text, i, j)

\* The 202 answer has no id header, no usable Location segment and no job_id /
\* id body field.
NoIdBut(r) ==
    /\ ~Truthy(r.xJobId) /\ ~Truthy(r.xJobid) /\ ~Truthy(r.jobIdHeader)
    /\ \/ ~Truthy(r.location)
       \/ r.location[Len(r.location)] = "/"
    /\ \/ r.body.json.kind # "object"
       \/ ~Truthy(r.body.json.job_id) /\ ~Truthy(r.body.json.id)

\* C20 as stated: for such an answer the job id is the first token of at least 10
\* alphanumeric / dash / underscore characters of the raw body text, whether or
\* not the body parses as JSON, and it is absent only when there is no token.
C20_TokenFromAnyBody ==
    (ret.by \in {"extractJobIdFromResponse", "extractJobId"} /\ NoIdBut(res))
        => ret.value = FirstToken(res.body.text)

\* C20 amended: for such an answer the job id is that first token when the body
\* text does not parse as JSON; it is absent when the body is empty, has no such
\* token, or parses as JSON (even if the text holds such a token).
C20_TokenFromUnparsableBody ==
    (ret.by \in {"extractJobIdFromResponse", "extractJobId"} /\ NoIdBut(res))
        => ret.value = IF Truthy(res.body.text) /\ res.body.json.kind = "invalid"
                       THEN FirstToken(res.body.text)
                       ELSE NULL

C20_Witness ==
    /\ ret.by = "extractJobIdFromResponse"
    /\ NoIdBut(res)
    /\ res.location = <<"/","j","o","b","s","/">>
    /\ res.body.json.kind = "invalid"
    /\ res.body.text = <<"a","c","c","e","p","t","e","d"," ","j","o","b","-","0","1","2","3",
                         "4","5","6","7","8","9"," ","n","o","w">>
    /\ ret.value = <<"j","o","b","-","0","1","2","3","4","5","6","7","8","9">>

\* C21: when startFullSyncAsync rejects because the start answer has a
\* non-success status, the message of the Error it throws carries the HTTP status
\* and the raw response body (or the body's detail field).
C21_StartErrorCarriesBody ==
    LET Contains(text, part) ==
            \E i \in 1..(Len(text) - Len(part) + 1) :
                SubSeq(text, i, i + Len(part) - 1) = part
    IN  (ret.by = "startFullSyncAsync" /\ res.status # NetworkError
            /\ res.status \notin 200..299)
        => /\ ret.value.kind = "thrown"
           /\ Contains(ret.value.text, Digits(res.status))
           /\ Truthy(res.body.text) => Contains(ret.value.text, res.body.text)

C23_NonJsonAttemptHasError ==
    \A i \in 1..Len(responses) :
        (responses[i].status \in 200..299 /\ responses[i].body = "html")
        => /\ Len(tried) >= i
           /\ tried[i].url = candidateUrls(route)[i]
           /\ tried[i].error = "Non-JSON response despite 2xx"
           /\ answer.from # i
           /\ i < Len(candidateUrls(route)) => Len(requested) > i

\* C24: the job getFullSyncStatus returns has its error field populated only when
\* its status is error: for queued, running and done the field is absent,
\* whatever the backend sent.
C24_ErrorOnlyWithStatusError ==
    (ret.by = "getFullSyncStatus" /\ ~ret.value.thrown
        /\ ret.value.status \in {Queued, Running, Done})
    => ret.value.error = Undefined

(***************************************************************************)
(* C27                                                                     *)
(***************************************************************************)
PostRoutes == {"shippingParamsPOST", "shippingSyncPOST", "mappingStorePOST"}

\* C27 (as stated): in a POST resolver call, once some candidate has answered
\* with a 2xx status no later candidate receives the payload.
C27_NoRequestAfter2xx ==
    route \in PostRoutes =>
        \A i \in 1..Len(responses) :
            (responses[i].status >= 200 /\ responses[i].status <= 299)
                => Len(requested) = i

\* C27 (amended): in a POST resolver call, once some candidate has answered with
\* a 2xx status other than 204 / 205 and a body that is empty or a JSON object,
\* no later candidate receives the payload and the handler has answered from
\* that candidate.
C27_NoRequestAfterAcceptedBody ==
    route \in PostRoutes =>
        \A i \in 1..Len(responses) :
            (/\ responses[i].status >= 200 /\ responses[i].status <= 299
             /\ responses[i].status \notin {204, 205}
             /\ responses[i].body \in {"empty", "object"})
                => /\ Len(requested) = i
                   /\ rpc = "answered"
                   /\ answer.from = i

\* A save that reached two candidates: the first answered 2xx with a body the
\* route does not take, the second was accepted.
C27_Witness ==
    /\ route \in PostRoutes
    /\ rpc = "answered"
    /\ answer.from = 2
    /\ responses[1].status = 200
    /\ responses[2].status = 200
    /\ Len(requested) = 2

(***************************************************************************)
(* C28                                                                     *)
(***************************************************************************)
\* C28: whatever path the ClientButtons full-sync handler takes (synchronous
\* completion, poll reporting done, poll reporting error, failure to start),
\* once it has finished fullLoading is false, phase is idle, jobId is null and
\* jobStatus is null.
C28_HandlerResetsState ==
    (caller = "ClientButtons" /\ outcome \in {"completed", "failed", "startFailed"})
        => /\ pc = "idle"
           /\ fullLoading = FALSE
           /\ phase = "idle"
           /\ jobId = NULL
           /\ jobStatus = NULL

\* The handler finished on a poll that reported error, after an earlier poll had
\* set jobStatus and the start had set jobId.
C28_Witness ==
    /\ caller = "ClientButtons"
    /\ outcome = "failed"
    /\ start.kind = "async"
    /\ Len(statusLog) >= 2
    /\ lastCheck = Error
    /\ fullLoading = FALSE
    /\ jobId = NULL

(***************************************************************************)
(* Partial sync: runPartialSync and the /api/integration/partial proxy     *)
(***************************************************************************)
JsFalse == [t |-> "boolean", v |-> <<"f","a","l","s","e">>]

\* SKU lists of up to two entries.
SkuLists == {<<>>} \cup {<<a>> : a \in {"A", "B"}}
                \cup {<<a, b>> : a \in {"A", "B"}, b \in {"A", "B"}}

\* A `skus` member that is not an array.
NotArray == <<"<not an array>">>

\* What callers hand to runPartialSync.
PartialArgs == [skus : SkuLists, dryRun : BOOLEAN]

\* Request bodies the proxy can receive, by the members it reads or is sent.
PartialBodies ==
    [skus : SkuLists \cup {NotArray},
     dryRun : {Undefined, JsTrue, JsFalse},
     dry_run : {Undefined, JsNull, JsTrue, JsFalse, Str(<<"y","e","s">>)}]

\* The body runPartialSync posts: JSON.stringify({ skus: arg.skus, dryRun:
\* arg.dryRun }).
runPartialSyncBody(arg) ==
    [skus |-> arg.skus,
     dryRun |-> IF arg.dryRun THEN JsTrue ELSE JsFalse,
     dry_run |-> Undefined]

\* a ?? b.
Coalesce(a, b) == IF a.t \in {"undefined", "null"} THEN b ELSE a

NotForwarded(status) ==
    [forwarded |-> FALSE, status |-> status, skus |-> <<>>, dry_run |-> FALSE]
Forwarded(skus, dry_run) ==
    [forwarded |-> TRUE, status |-> 0, skus |-> skus, dry_run |-> dry_run]

\* The proxy's POST with INTEGRATION_BASE_URL set, up to its fetch: what it
\* forwards to `${base}/api/sync/partial`, or the status it answers without
\* forwarding.
PartialPOST(body) ==
    LET skus == IF body.skus \in SkuLists THEN body.skus ELSE <<>>
        dry_run == TruthyValue(Coalesce(body.dry_run, JsFalse))
    IN  IF Len(skus) = 0 THEN NotForwarded(400)
        ELSE Forwarded(skus, dry_run)

\* runPartialSync and the proxy on every argument, and the proxy on every body.
InitPartial ==
    /\ res \in PartialArgs \cup PartialBodies
    /\ ret = NotCalled
    /\ IdlePoll
    /\ IdleResolve
    /\ IdlePage

CallRunPartialSync ==
    /\ ret = NotCalled
    /\ res \in PartialArgs
    /\ ret' = [by |-> "runPartialSync", value |-> PartialPOST(runPartialSyncBody(res))]
    /\ UNCHANGED <<res, pollVars, resolveVars, pageVars>>

CallPartialPOST ==
    /\ ret = NotCalled
    /\ res \in PartialBodies
    /\ ret' = [by |-> "POST", value |-> PartialPOST(res)]
    /\ UNCHANGED <<res, pollVars, resolveVars, pageVars>>

NextPartial == CallRunPartialSync \/ CallPartialPOST

SpecPartial == InitPartial /\ [][NextPartial]_vars

(***************************************************************************)
(* C26                                                                     *)
(***************************************************************************)
\* C26: a partial sync requested through runPartialSync with dryRun = true
\* reaches the backend with dry_run = true, and the proxy forwards the caller's
\* SKU list unchanged.
C26_DryRunReachesBackend ==
    ret.by = "runPartialSync" =>
        (ret.value.forwarded =>
            /\ ret.value.skus = res.skus
            /\ ret.value.dry_run = res.dryRun)

(***************************************************************************)
(* ClientButtons: both buttons, the click handlers they start and the      *)
(* mounts of the component                                                 *)
(***************************************************************************)
MaxHandlers == 3
MaxInstances == 2

\* disabled={previewLoading || fullLoading}, on both buttons.
Disabled == previewLoading \/ fullLoading

\* A click handler: the button it belongs to, where it stands, the mount of the
\* component whose state it sets and the job id it polls.
Handler(button, at, inst, job_id) ==
    [button |-> button, at |-> at, instance |-> inst, job_id |-> job_id]

\* A set-state call takes effect only on the component instance still mounted.
OnScreen(h) == h.instance = instance

\* The polling state that the handlers of this section leave alone.
sessionVars == <<caller, pc, invocation, startReqs, start, delay, waits, statusLog,
                 lastCheck, outcome, inflight, lastJob, reported, proxied, refVars>>

\* The preview button's onClick up to its await.
ClickPreview ==
    /\ ~Disabled
    /\ Len(handlers) < MaxHandlers
    /\ previewLoading' = TRUE
    /\ handlers' = Append(handlers, Handler("preview", "request", instance, NULL))
    /\ UNCHANGED <<instance, uiVars, sessionVars, pureVars, resolveVars, dashVars>>

\* callSimple('/api/sync/preview') settles, either way: router.refresh() or the
\* alert, then the finally block.
PreviewSettles(i) ==
    /\ handlers[i].button = "preview"
    /\ handlers[i].at = "request"
    /\ handlers' = [handlers EXCEPT ![i].at = "finished"]
    /\ previewLoading' = IF OnScreen(handlers[i]) THEN FALSE ELSE previewLoading
    /\ UNCHANGED <<instance, uiVars, sessionVars, pureVars, resolveVars, dashVars>>

\* The full-sync button's onClick up to its first await.
ClickFullSync ==
    /\ ~Disabled
    /\ Len(handlers) < MaxHandlers
    /\ fullLoading' = TRUE
    /\ phase' = "starting"
    /\ handlers' = Append(handlers, Handler("fullSync", "starting", instance, NULL))
    /\ UNCHANGED <<jobId, jobStatus, previewLoading, instance, sessionVars, pureVars,
                   resolveVars, dashVars>>

\* The start request of handler i settles with answer r.
FullStartSettles(i, r) ==
    /\ handlers[i].button = "fullSync"
    /\ handlers[i].at = "starting"
    /\ LET s == startFullSyncAsync(r)
       IN  IF s.kind = "thrown" \/ ShortCircuits(s)
           THEN /\ handlers' = [handlers EXCEPT ![i].at = "finished"]
                /\ IF OnScreen(handlers[i]) THEN Finally ELSE UNCHANGED uiVars
           ELSE /\ handlers' = [handlers EXCEPT ![i].at = "polling",
                                                ![i].job_id = s.job_id]
                /\ IF OnScreen(handlers[i])
                   THEN /\ phase' = "queued"
                        /\ jobId' = s.job_id
                        /\ UNCHANGED <<fullLoading, jobStatus>>
                   ELSE UNCHANGED uiVars
    /\ UNCHANGED <<previewLoading, instance, sessionVars, pureVars, resolveVars,
                   dashVars>>

\* The status request of handler i settles with answer r.
FullStatusSettles(i, r) ==
    /\ handlers[i].button = "fullSync"
    /\ handlers[i].at = "polling"
    /\ LET s == getFullSyncStatus(handlers[i].job_id, r)
       IN  IF s.thrown
           THEN /\ handlers' = [handlers EXCEPT ![i].at = "waiting"]
                /\ UNCHANGED uiVars
           ELSE IF EndsLoop(s.status)
           THEN /\ handlers' = [handlers EXCEPT ![i].at = "finished"]
                /\ IF OnScreen(handlers[i]) THEN Finally ELSE UNCHANGED uiVars
           ELSE /\ handlers' = [handlers EXCEPT ![i].at = "waiting"]
                /\ IF OnScreen(handlers[i])
                   THEN /\ jobStatus' = s.status
                        /\ phase' = PhaseAfter(s.status, phase)
                        /\ UNCHANGED <<fullLoading, jobId>>
                   ELSE UNCHANGED uiVars
    /\ UNCHANGED <<previewLoading, instance, sessionVars, pureVars, resolveVars,
                   dashVars>>

\* The backoff wait of handler i elapses and the next status request is sent.
FullTimerFires(i) ==
    /\ handlers[i].button = "fullSync"
    /\ handlers[i].at = "waiting"
    /\ handlers' = [handlers EXCEPT ![i].at = "polling"]
    /\ UNCHANGED <<previewLoading, instance, uiVars, sessionVars, pureVars,
                   resolveVars, dashVars>>

\* The page is left and entered again: the cleanup effect finds abortRef.current
\* and timerRef.current null (nothing assigns them) and stops nothing, and the new
\* instance starts from the useState initial values.
Remount ==
    /\ instance < MaxInstances
    /\ instance' = instance + 1
    /\ previewLoading' = FALSE
    /\ Finally
    /\ UNCHANGED <<handlers, sessionVars, pureVars, resolveVars, dashVars>>

InitButtons ==
    /\ InitPoll
    /\ caller = "ClientButtons"
    /\ IdlePure
    /\ IdleResolve
    /\ IdlePage

NextButtons ==
    \/ ClickPreview
    \/ ClickFullSync
    \/ Remount
    \/ \E i \in DOMAIN handlers : PreviewSettles(i)
    \/ \E i \in DOMAIN handlers : FullTimerFires(i)
    \/ \E i \in DOMAIN handlers, r \in LiveStartResponses : FullStartSettles(i, r)
    \/ \E i \in DOMAIN handlers, r \in LiveStatusResponses : FullStatusSettles(i, r)

SpecButtons == InitButtons /\ [][NextButtons]_vars

(***************************************************************************)
(* C29                                                                     *)
(***************************************************************************)
\* C29: while a full sync or a preview started from ClientButtons is in progress
\* both buttons are disabled, so at most one start request is outstanding and at
\* most one polling session is active at any time.
C29_OneSessionAtATime ==
    LET at(positions) == {i \in DOMAIN handlers : handlers[i].at \in positions}
    IN  /\ at({"request", "starting", "polling", "waiting"}) # {} => Disabled
        /\ Cardinality(at({"starting"})) <= 1
        /\ Cardinality(at({"polling", "waiting"})) <= 1

(***************************************************************************)
(* DashboardPage: health gate, automatic preview, refresh and full sync    *)
(***************************************************************************)
MaxClicks == 3
MaxEffectRuns == 3

\* The two sources of the page.
DashboardPages == {"part_014", "inboxReplay"}

\* A preview fetched when the backend had completed `epoch` full syncs.
Preview(epoch) == [kind |-> "preview", epoch |-> epoch]

\* The value runFullSync resolved with, when it carries a report.
SyncResult(epoch) == [kind |-> "syncResult", epoch |-> epoch]

\* An async function in flight and the call it awaits.
Task(fn, at) == [fn |-> fn, at |-> at]

\* The sequence without its i-th element.
Without(seq, i) == [j \in 1..(Len(seq) - 1) |-> IF j < i THEN seq[j] ELSE seq[j + 1]]

\* A handler that finished, for the record of the last one.
Finished(fn, synced, refetched, shown, epoch) ==
    [fn |-> fn, synced |-> synced, refetched |-> refetched,
     stale |-> shown.kind = "preview" /\ shown.epoch < epoch]

\* Faulty variant: the session guard is written when the preview has arrived.
GuardAfterRequest == FALSE

\* window.sessionStorage.setItem(KEY, '1') comes before the async function that
\* requests the preview.
GuardBeforeRequest == TRUE

\* The page is mounted: the cached preview is shown and the health check starts.
InitDash ==
    /\ page \in DashboardPages
    /\ gate = "checking"
    /\ cache \in {NoData, Preview(0)}
    /\ data = cache
    /\ loading = (page = "inboxReplay")
    /\ autopreviewDone = FALSE
    /\ backendEpoch = 0
    /\ tasks = <<Task("health", "runHealth")>>
    /\ autoPreviews = 0
    /\ effectRuns = 0
    /\ clicks = 0
    /\ lastDone = NothingDone

\* What the dashboard's steps leave alone.
offPage == <<buttonVars, pureVars, pollVars, resolveVars>>

\* runHealth() of the mount effect or of recheckHealthAndMaybePreview settles.
HealthSettles(i, ok) ==
    /\ tasks[i].at = "runHealth"
    /\ gate' = IF ok THEN "ready" ELSE "down"
    /\ loading' = IF tasks[i].fn = "health" /\ page = "part_014" THEN loading
                  ELSE FALSE
    /\ tasks' = Without(tasks, i)
    /\ UNCHANGED <<page, data, autopreviewDone, cache, backendEpoch, autoPreviews,
                   effectRuns, clicks, lastDone, offPage>>

\* The gate effect runs with gate = ready (it returns at once otherwise): after
\* the gate changed, twice in a row under StrictMode, or on a later mount.
GateEffect ==
    /\ gate = "ready"
    /\ effectRuns < MaxEffectRuns
    /\ effectRuns' = effectRuns + 1
    /\ IF autopreviewDone
       THEN UNCHANGED <<autopreviewDone, autoPreviews, tasks, loading>>
       ELSE /\ autopreviewDone' = GuardBeforeRequest
            /\ autoPreviews' = autoPreviews + 1
            /\ tasks' = Append(tasks, Task("autoPreview", "runPreview"))
            /\ loading' = TRUE
    /\ UNCHANGED <<page, gate, data, cache, backendEpoch, clicks, lastDone,
                   offPage>>

\* onRefreshPreview up to its await.
onRefreshPreview ==
    /\ gate = "ready"
    /\ clicks < MaxClicks
    /\ clicks' = clicks + 1
    /\ loading' = TRUE
    /\ tasks' = Append(tasks, Task("onRefreshPreview", "runPreview"))
    /\ UNCHANGED <<page, gate, data, autopreviewDone, cache, backendEpoch,
                   autoPreviews, effectRuns, lastDone, offPage>>

\* onFullSync up to its first await.
onFullSync ==
    /\ gate = "ready"
    /\ clicks < MaxClicks
    /\ clicks' = clicks + 1
    /\ loading' = TRUE
    /\ tasks' = Append(tasks, Task("onFullSync", "runFullSync"))
    /\ UNCHANGED <<page, gate, data, autopreviewDone, cache, backendEpoch,
                   autoPreviews, effectRuns, lastDone, offPage>>

\* recheckHealthAndMaybePreview up to its await; its button is rendered while the
\* gate is down.
recheckHealthAndMaybePreview ==
    /\ gate = "down"
    /\ clicks < MaxClicks
    /\ clicks' = clicks + 1
    /\ loading' = TRUE
    /\ tasks' = Append(tasks, Task("recheckHealthAndMaybePreview", "runHealth"))
    /\ UNCHANGED <<page, gate, data, autopreviewDone, cache, backendEpoch,
                   autoPreviews, effectRuns, lastDone, offPage>>

\* runPreview() settles for the task i that awaits it.  The older page saves the
\* preview from onRefreshPreview only; the newer one saves whatever data it sets.
PreviewArrives(i, ok) ==
    /\ tasks[i].at = "runPreview"
    /\ LET fresh == Preview(backendEpoch)
           saves == page = "inboxReplay" \/ tasks[i].fn = "onRefreshPreview"
       IN  /\ data' = IF ok THEN fresh ELSE data
           /\ cache' = IF ok /\ saves THEN fresh ELSE cache
           /\ lastDone' = IF tasks[i].fn = "onFullSync"
                          THEN Finished("onFullSync", TRUE, TRUE, data', backendEpoch)
                          ELSE Finished(tasks[i].fn, FALSE, FALSE, data', backendEpoch)
    /\ autopreviewDone' = (autopreviewDone \/ tasks[i].fn = "autoPreview")
            \* the guard is already set when an automatic preview arrives
    /\ loading' = FALSE
    /\ tasks' = Without(tasks, i)
    /\ UNCHANGED <<page, gate, backendEpoch, autoPreviews, effectRuns, clicks,
                   offPage>>

\* runFullSync() settles for onFullSync: it rejects, or it resolves with the
\* job's result, which carries a report or is undefined.
FullSyncSettles(i, result) ==
    /\ tasks[i].at = "runFullSync"
    /\ IF result = "rejected"
       THEN /\ loading' = FALSE
            /\ tasks' = Without(tasks, i)
            /\ lastDone' = Finished("onFullSync", FALSE, FALSE, data, backendEpoch)
            /\ UNCHANGED <<data, cache, backendEpoch>>
       ELSE /\ backendEpoch' = backendEpoch + 1
            /\ cache' = NoData
            /\ IF page = "part_014"
               THEN /\ data' = IF result = "report" THEN SyncResult(backendEpoch')
                               ELSE NoData
                    /\ loading' = FALSE
                    /\ tasks' = Without(tasks, i)
                    /\ lastDone' = Finished("onFullSync", TRUE, FALSE, data', backendEpoch')
               ELSE /\ tasks' = [tasks EXCEPT ![i].at = "runPreview"]
                    /\ UNCHANGED <<data, loading, lastDone>>
    /\ UNCHANGED <<page, gate, autopreviewDone, autoPreviews, effectRuns, clicks,
                   offPage>>

\* The page is left and entered again with nothing in flight: the component
\* starts over, sessionStorage and the cached preview stay.
RemountPage ==
    /\ tasks = <<>>
    /\ clicks < MaxClicks
    /\ clicks' = clicks + 1
    /\ gate' = "checking"
    /\ data' = cache
    /\ loading' = (page = "inboxReplay")
    /\ tasks' = <<Task("health", "runHealth")>>
    /\ UNCHANGED <<page, autopreviewDone, cache, backendEpoch, autoPreviews,
                   effectRuns, lastDone, offPage>>

InitDashboard ==
    /\ InitDash
    /\ IdleButtons
    /\ IdlePure
    /\ IdlePoll
    /\ IdleResolve

NextDashboard ==
    \/ GateEffect
    \/ onRefreshPreview
    \/ onFullSync
    \/ recheckHealthAndMaybePreview
    \/ RemountPage
    \/ \E i \in DOMAIN tasks, ok \in BOOLEAN : HealthSettles(i, ok)
    \/ \E i \in DOMAIN tasks, ok \in BOOLEAN : PreviewArrives(i, ok)
    \/ \E i \in DOMAIN tasks, result \in {"report", "undefined", "rejected"} :
          FullSyncSettles(i, result)

SpecDashboard == InitDashboard /\ [][NextDashboard]_vars

(***************************************************************************)
(* C25                                                                     *)
(***************************************************************************)
\* C25: whenever a full sync completes successfully, the caller requests a fresh
\* preview before it returns to idle, and what it then shows is not the snapshot
\* taken before the sync.
C25_RefetchAfterFullSync ==
    (lastDone.fn = "onFullSync" /\ lastDone.synced)
        => (lastDone.refetched /\ ~lastDone.stale)

(***************************************************************************)
(* C30                                                                     *)
(***************************************************************************)
\* C30: however many times the gate effect runs with gate = ready, at most one
\* automatic preview request is issued in a browser session.
C30_AutoPreviewOnce == autoPreviews <= 1

\* The effect ran a second time with gate = ready while the automatic preview
\* of its first run was still in flight.
C30_Witness ==
    /\ effectRuns >= 2
    /\ autoPreviews = 1
    /\ \E i \in DOMAIN tasks : tasks[i].fn = "autoPreview"

====
